---- MODULE Spec2Model ----
(***************************************************************************)
(* Model of bot.py: the league registry bot.  Two PostgreSQL tables        *)
(* (teams, players), the slash-command handlers setteam, deleteteam,       *)
(* rankplayer, unrank with their allow-list check, the read side           *)
(* (playerinfo / GET /player/{h}, fetch_team_names_like), the connection   *)
(* pool and init_db.                                                       *)
(*                                                                         *)
(* Text values that the code transforms (strip, lower, LIKE) are tuples of *)
(* one-character strings, so the transformations are computed.  Optional   *)
(* (nullable) values are tuples of length 0 (NULL / None) or 1.            *)
(* Every SQL statement is one atomic step (autocommit); a handler yields   *)
(* to other handlers at each await.                                        *)
(***************************************************************************)
EXTENDS Integers, Sequences, FiniteSets, Bags, TLC

VARIABLES teams, players, clock, calls, pc, cmd, loc, reply, conns, slots,
          serial, last, prev

vars == <<teams, players, clock, calls, pc, cmd, loc, reply, conns, slots,
          serial, last, prev>>

\* ------------------------------------------------------------------------
\* Bounds
\* ------------------------------------------------------------------------
MaxClock == 2

\* commands issued in one serial run
MaxCalls == 4

\* commands issued in one run of two overlapping handlers
MaxOverlapCalls == 3

\* commands issued in one run that starts with most connections in use
MaxCrowdCalls == 2

\* ------------------------------------------------------------------------
\* Text
\* ------------------------------------------------------------------------
UpperChars == <<"A","B","C","D","E","F","G","H","I","J","K","L","M",
                "N","O","P","Q","R","S","T","U","V","W","X","Y","Z">>

LowerChars == <<"a","b","c","d","e","f","g","h","i","j","k","l","m",
                "n","o","p","q","r","s","t","u","v","w","x","y","z">>

Whitespace == {" "}

LowerChar(c) ==
    IF \E i \in DOMAIN UpperChars : UpperChars[i] = c
    THEN LowerChars[CHOOSE i \in DOMAIN UpperChars : UpperChars[i] = c]
    ELSE c

\* str.lower() / SQL LOWER()
Lower(s) == [i \in DOMAIN s |-> LowerChar(s[i])]

RECURSIVE LStrip(_)
LStrip(s) ==
    IF s # <<>> /\ Head(s) \in Whitespace THEN LStrip(Tail(s)) ELSE s

RECURSIVE RStrip(_)
RStrip(s) ==
    IF s # <<>> /\ s[Len(s)] \in Whitespace
    THEN RStrip(SubSeq(s, 1, Len(s) - 1))
    ELSE s

\* str.strip()
Strip(s) == RStrip(LStrip(s))

FREE_AGENT_TEAM == <<"F","r","e","e"," ","A","g","e","n","t">>

\* the values the code writes for the sentinel team and for an unset division
NoneText == <<"N","o","n","e">>

Null == <<>>

Some(x) == <<x>>

\* slips of the guard: the constant is not lowered; the argument is not lowered
IsReservedConstantNotLowered(team) == Lower(Strip(team)) = FREE_AGENT_TEAM

IsReservedCaseSensitive(team) == Strip(team) = FREE_AGENT_TEAM

\* slip: the argument is not stripped
IsReservedNotStripped(team) == Lower(team) = Lower(FREE_AGENT_TEAM)

\* team.strip().lower() == FREE_AGENT_TEAM.lower()
IsReserved(team) == Lower(Strip(team)) = Lower(FREE_AGENT_TEAM)

\* ------------------------------------------------------------------------
\* Inputs
\* ------------------------------------------------------------------------
Red == <<"R","e","d">>

red == <<"r","e","d">>

freeAGENT == <<"f","r","e","e"," ","A","G","E","N","T">>

PaddedFreeAgent == <<" ","F","r","e","e"," ","A","g","e","n","t"," ">>

\* a run with more handlers at once than the pool has connections uses one
\* value per argument
Crowded == Cardinality(slots) > 2

TeamInputs ==
    IF Crowded THEN {red}
    ELSE {Red, red, FREE_AGENT_TEAM, freeAGENT, PaddedFreeAgent}

al == <<"a","l">>

Al == <<"A","l">>

UserInputs == IF Crowded THEN {al} ELSE {al, Al}

\* serial runs try two ranks, overlapping runs one
RankInputs == IF serial THEN {"Player", "Owner"} ELSE {"Player"}

\* (owner, manager, logo_asset_id, division) argument tuples of /setteam
TeamArgInputs ==
    IF Crowded
    THEN {[owner |-> "ann", manager |-> Null, logo |-> Null, division |-> Null]}
    ELSE
    { [owner |-> "ann", manager |-> Null, logo |-> Null, division |-> Null],
      [owner |-> "ann", manager |-> Null, logo |-> Null,
       division |-> Some(<<" ">>)],
      [owner |-> "bob", manager |-> Some("cy"), logo |-> Some(7),
       division |-> Some(<<" ","D","1">>)] }

\* the handlers that can be running at once: the task slots of the run
Procs == slots

Pair == {"t1", "t2"}

Crowd6 == {"t1", "t2", "t3", "t4", "t5", "t6"}

SlotOrder == <<"t1", "t2", "t3", "t4", "t5", "t6">>

SlotNo(p) == CHOOSE i \in DOMAIN SlotOrder : SlotOrder[i] = p

\* ALLOWED_IDS as parsed from the environment, and the Discord ids of the
\* users who invoke commands
ALLOWED_IDS == {1}

CallerIds == {1, 2}

NoCaller == 0

\* slip: the check lets everyone through
AllowedAnyone(id) == TRUE

\* require_allowed_only: interaction.user.id in ALLOWED_IDS
Allowed(id) == id \in ALLOWED_IDS

\* ------------------------------------------------------------------------
\* Store: the two tables are bags of rows; keys are enforced by the
\* statements, as the PRIMARY KEY / REFERENCES clauses of init_db say.
\* ------------------------------------------------------------------------
TeamRow(name, owner, manager, logo, division) ==
    [name |-> name, owner_roblox |-> owner, manager_roblox |-> manager,
     logo_asset_id |-> logo, division |-> division]

PlayerRow(user, team, rank, now) ==
    [roblox_user |-> user, team_name |-> team, rank |-> rank, updated_at |-> now]

Rows(tbl) == BagToSet(tbl)

TeamExists(tbl, name) == \E t \in Rows(tbl) : t.name = name

\* rows of tbl that satisfy no key condition with the new row
Without(tbl, S) == [r \in Rows(tbl) \ S |-> tbl[r]]

\* slip: the insert is done without the key on name
InsertTeamDoNothingNoKey(tbl, row) == tbl (+) SetToBag({row})

\* INSERT INTO teams ... ON CONFLICT (name) DO NOTHING

InsertTeamDoNothing(tbl, row) ==
    IF TeamExists(tbl, row.name) THEN tbl ELSE tbl (+) SetToBag({row})

\* slip: ON CONFLICT (name) DO NOTHING, as in init_db
UpsertTeamDoNothing(tbl, row) ==
    IF TeamExists(tbl, row.name) THEN tbl ELSE tbl (+) SetToBag({row})

\* INSERT INTO teams ... ON CONFLICT (name) DO UPDATE SET (all columns)
UpsertTeam(tbl, row) ==
    Without(tbl, {t \in Rows(tbl) : t.name = row.name}) (+) SetToBag({row})

\* the sentinel row of init_db
SentinelRow == TeamRow(FREE_AGENT_TEAM, "System", Null, Null, NoneText)

\* utc_now_iso(): the wall clock, read at tick t, cut to whole seconds
\* (isoformat(timespec="seconds")).  clock is the latest reading taken; the
\* next reading is any tick from there on.
TicksPerSecond == 2

ClockReadings == IF Crowded THEN {clock} ELSE clock .. MaxClock

utc_now_iso(t) == t \div TicksPerSecond

\* ------------------------------------------------------------------------
\* The connection pool: conns[p] is the number of connections task p holds
\* ------------------------------------------------------------------------
\* asyncpg.create_pool(DATABASE_URL, min_size=1, max_size=5)
max_size == 5

RECURSIVE SumOver(_, _)
SumOver(c, S) ==
    IF S = {} THEN 0
    ELSE LET p == CHOOSE x \in S : TRUE
         IN  c[p] + SumOver(c, S \ {p})

InUse(c) == SumOver(c, DOMAIN c)

\* pool.acquire() returns when a connection is free
CanAcquire(c) == InUse(c) < max_size

Acquire(c, p) == [c EXCEPT ![p] = @ + 1]

\* slip: the connection is not given back when the block is left
ReleaseLeaks(c, p) == c

\* leaving "async with pool.acquire() as conn": by its end, a return or an
\* exception
Release(c, p) == [c EXCEPT ![p] = @ - 1]

\* ------------------------------------------------------------------------
\* Handler state
\* ------------------------------------------------------------------------
NoCmd == [name |-> "none", user |-> Null, team |-> Null, rank |-> "",
          args |-> Null, caller |-> NoCaller]

NoLoc == [now |-> 0, old_team |-> Null, count |-> 0, row |-> Null]

NoLast == [name |-> "none", user |-> Null, team |-> Null, rank |-> ""]

\* reply is the message (or the exception) a handler has just produced: who,
\* for which command, with which locals, and the outcome.  It is visible in
\* the state that follows the replying step and gone after the next step.
NoReply == [task |-> "none", cmd |-> NoCmd, loc |-> NoLoc, out |-> "none"]

Idle(p) == pc[p] = "idle"

\* A command can be issued while commands are left in the run and a task
\* slot is idle; the new task takes the first idle slot.  A serial run
\* (serial = TRUE) has one slot: the caller waits for each reply before the
\* next command.  Otherwise handlers overlap freely.
CallBound ==
    IF serial THEN MaxCalls
    ELSE IF Crowded THEN MaxCrowdCalls
    ELSE MaxOverlapCalls

CanCall(p) ==
    /\ Idle(p)
    /\ calls < CallBound
    /\ \A q \in Procs : Idle(q) => SlotNo(p) <= SlotNo(q)

\* History kept in serial runs only: last is the command that replied most
\* recently (if it succeeded), prev the one that had replied when the running
\* command was issued.
OnCall ==
    /\ calls' = calls + 1
    /\ last' = NoLast
    /\ prev' = IF serial THEN last ELSE prev
    /\ UNCHANGED <<serial, slots>>

OnReply(c, ok) ==
    /\ last' = IF serial /\ ok
               THEN [name |-> c.name, user |-> c.user, team |-> c.team,
                     rank |-> c.rank]
               ELSE NoLast
    /\ prev' = NoLast
    /\ UNCHANGED <<calls, serial, slots>>

\* the handler goes on to its next await
Goto(p, stage) ==
    /\ pc' = [pc EXCEPT ![p] = stage]
    /\ reply' = NoReply

Continue(p, stage) ==
    /\ Goto(p, stage)
    /\ UNCHANGED <<calls, conns, serial, slots, last, prev>>

\* the handler leaves its store block and replies with outcome o (or raises
\* o) and is over
Reply(p, c, l, o, ok) ==
    /\ conns' = Release(conns, p)
    /\ pc' = [pc EXCEPT ![p] = "idle"]
    /\ cmd' = [cmd EXCEPT ![p] = NoCmd]
    /\ loc' = [loc EXCEPT ![p] = NoLoc]
    /\ reply' = [task |-> p, cmd |-> c, loc |-> l, out |-> o]
    /\ OnReply(c, ok)

\* the predicate of require_allowed_only fails: the message is sent and the
\* command body does not run; the arguments of the command are not looked at
Denied(p, c) ==
    /\ pc' = pc /\ cmd' = cmd /\ loc' = loc
    /\ reply' = [task |-> p,
                 cmd |-> [NoCmd EXCEPT !.name = c.name, !.caller = c.caller],
                 loc |-> NoLoc, out |-> "Unauthorized"]

\* init_db on an empty database: both tables created, sentinel inserted
Fresh ==
    /\ teams = InsertTeamDoNothing(EmptyBag, SentinelRow)
    /\ players = EmptyBag
    /\ clock = 0
    /\ calls = 0
    /\ pc = [p \in Procs |-> "idle"]
    /\ cmd = [p \in Procs |-> NoCmd]
    /\ loc = [p \in Procs |-> NoLoc]
    /\ reply = NoReply
    /\ conns = [p \in Procs |-> 0]
    /\ last = NoLast
    /\ prev = NoLast

Init == slots = Pair /\ serial = FALSE /\ Fresh

SerialInit == slots = {"t1"} /\ serial = TRUE /\ Fresh

\* More handlers at once than the pool has connections: the run starts on a
\* database as setteam(red, ann) leaves it, while four /playerinfo lookups
\* are waiting for their query, each holding a connection.
Parked == {"t1", "t2", "t3", "t4"}

CrowdInit ==
    /\ slots = Crowd6
    /\ serial = FALSE
    /\ teams = UpsertTeam(InsertTeamDoNothing(EmptyBag, SentinelRow),
                          TeamRow(red, "ann", Null, Null, NoneText))
    /\ players = EmptyBag
    /\ clock = 0
    /\ calls = 0
    /\ pc = [p \in Procs |-> IF p \in Parked THEN "playerinfo_query" ELSE "idle"]
    /\ cmd = [p \in Procs |->
                IF p \in Parked
                THEN [NoCmd EXCEPT !.name = "playerinfo", !.user = al]
                ELSE NoCmd]
    /\ loc = [p \in Procs |-> NoLoc]
    /\ reply = NoReply
    /\ conns = [p \in Procs |-> IF p \in Parked THEN 1 ELSE 0]
    /\ last = NoLast
    /\ prev = NoLast

\* ------------------------------------------------------------------------
\* async with pool.acquire() as conn: the handler waits until a connection
\* is free, takes it and goes on to its first statement
\* ------------------------------------------------------------------------
FirstStatement(name) ==
    CASE name = "setteam" -> "setteam_upsert"
      [] name = "deleteteam" -> "deleteteam_count"
      [] name = "rankplayer" -> "rankplayer_exists"
      [] name = "unrank" -> "unrank_upsert"
      [] name = "playerinfo" -> "playerinfo_query"

acquire(p) ==
    /\ pc[p] = "acquire"
    /\ CanAcquire(conns)
    /\ conns' = Acquire(conns, p)
    /\ Goto(p, FirstStatement(cmd[p].name))
    /\ UNCHANGED <<teams, players, clock, calls, cmd, loc, serial, slots,
                   last, prev>>

\* ------------------------------------------------------------------------
\* /setteam
\* ------------------------------------------------------------------------
\* div_value = (division or "None").strip() or "None"
div_value(division) ==
    LET d == IF division = Null \/ division[1] = <<>> THEN NoneText ELSE division[1]
        s == Strip(d)
    IN  IF s = <<>> THEN NoneText ELSE s

setteam_call(p) ==
    /\ CanCall(p)
    /\ \E caller \in CallerIds, team \in TeamInputs, a \in TeamArgInputs :
         LET c == [name |-> "setteam", user |-> Null, team |-> team,
                   rank |-> "", args |-> Some(a), caller |-> caller]
         IN  IF ~Allowed(caller) THEN Denied(p, c)
             ELSE IF IsReserved(team)
             THEN /\ pc' = pc /\ cmd' = cmd /\ loc' = loc
                  /\ reply' = [task |-> p, cmd |-> c, loc |-> NoLoc,
                               out |-> "ReservedName"]
             ELSE /\ cmd' = [cmd EXCEPT ![p] = c]
                  /\ loc' = loc
                  /\ Goto(p, "acquire")
    /\ OnCall
    /\ UNCHANGED <<teams, players, clock, conns>>

setteam_upsert(p) ==
    /\ pc[p] = "setteam_upsert"
    /\ LET a == cmd[p].args[1]
       IN  teams' = UpsertTeam(teams, TeamRow(cmd[p].team, a.owner, a.manager,
                                              a.logo, div_value(a.division)))
    /\ Reply(p, cmd[p], loc[p], "TeamSaved", TRUE)
    /\ UNCHANGED <<players, clock>>

\* ------------------------------------------------------------------------
\* /deleteteam
\* ------------------------------------------------------------------------
deleteteam_call(p) ==
    /\ CanCall(p)
    /\ \E caller \in CallerIds, teamname \in TeamInputs :
         LET c == [name |-> "deleteteam", user |-> Null, team |-> teamname,
                   rank |-> "", args |-> Null, caller |-> caller]
         IN  IF ~Allowed(caller) THEN Denied(p, c)
             ELSE IF IsReserved(teamname)
             THEN /\ pc' = pc /\ cmd' = cmd /\ loc' = loc
                  /\ reply' = [task |-> p, cmd |-> c, loc |-> NoLoc,
                               out |-> "ReservedName"]
             ELSE /\ cmd' = [cmd EXCEPT ![p] = c]
                  /\ loc' = loc
                  /\ Goto(p, "acquire")
    /\ OnCall
    /\ UNCHANGED <<teams, players, clock, conns>>

\* slip: the count is taken without the WHERE clause
CountPlayersAllTeams(tbl, teamname) == BagCardinality(tbl)

\* SELECT COUNT(*) FROM players WHERE team_name=$1
CountPlayers(tbl, teamname) ==
    BagCardinality(Without(tbl, {r \in Rows(tbl) : r.team_name # teamname}))

deleteteam_count(p) ==
    /\ pc[p] = "deleteteam_count"
    /\ LET count == CountPlayers(players, cmd[p].team)
           l == [loc[p] EXCEPT !.count = count]
       IN  IF count > 0
           THEN Reply(p, cmd[p], l, "TeamHasPlayers", FALSE)
           ELSE /\ loc' = [loc EXCEPT ![p] = l]
                /\ cmd' = cmd
                /\ Continue(p, "deleteteam_delete")
    /\ UNCHANGED <<teams, players, clock>>

\* players.team_name REFERENCES teams(name) ON DELETE RESTRICT
DeleteRestricted(teamtbl, playertbl, name) ==
    /\ TeamExists(teamtbl, name)
    /\ \E r \in Rows(playertbl) : r.team_name = name

\* status tag of DELETE: "DELETE n"; result.endswith("0")
EndsWith0(n) == n % 10 = 0

deleteteam_delete(p) ==
    /\ pc[p] = "deleteteam_delete"
    /\ IF DeleteRestricted(teams, players, cmd[p].team)
       THEN /\ Reply(p, cmd[p], loc[p], "ForeignKeyViolation", FALSE)
            /\ UNCHANGED teams
       ELSE LET gone == {t \in Rows(teams) : t.name = cmd[p].team}
                n == BagCardinality(teams) - BagCardinality(Without(teams, gone))
            IN  /\ teams' = Without(teams, gone)
                /\ Reply(p, cmd[p], loc[p],
                         IF EndsWith0(n) THEN "NotFound" ELSE "Deleted",
                         ~EndsWith0(n))
    /\ UNCHANGED <<players, clock>>

\* ------------------------------------------------------------------------
\* /rankplayer
\* ------------------------------------------------------------------------
rankplayer_call(p) ==
    /\ CanCall(p)
    /\ \E caller \in CallerIds, robloxuser \in UserInputs, team \in TeamInputs,
          rank \in RankInputs, t \in ClockReadings :
         LET c == [name |-> "rankplayer", user |-> robloxuser, team |-> team,
                   rank |-> rank, args |-> Null, caller |-> caller]
             l == [NoLoc EXCEPT !.now = utc_now_iso(t)]
         IN  IF ~Allowed(caller)
             THEN /\ Denied(p, c)
                  /\ clock' = clock
             ELSE /\ clock' = t
                  /\ IF IsReserved(team)
                     THEN /\ pc' = pc /\ cmd' = cmd /\ loc' = loc
                          /\ reply' = [task |-> p, cmd |-> c, loc |-> l,
                                       out |-> "UseUnrank"]
                     ELSE /\ cmd' = [cmd EXCEPT ![p] = c]
                          /\ loc' = [loc EXCEPT ![p] = l]
                          /\ Goto(p, "acquire")
    /\ OnCall
    /\ UNCHANGED <<teams, players, conns>>

\* SELECT 1 FROM teams WHERE name=$1
rankplayer_exists(p) ==
    /\ pc[p] = "rankplayer_exists"
    /\ IF TeamExists(teams, cmd[p].team)
       THEN /\ Continue(p, "rankplayer_old")
            /\ UNCHANGED <<cmd, loc>>
       ELSE Reply(p, cmd[p], loc[p], "UnknownTeam", FALSE)
    /\ UNCHANGED <<teams, players, clock>>

\* SELECT team_name FROM players WHERE roblox_user=$1 (fetchval: first row)
OldTeams(tbl, user) ==
    IF \E r \in Rows(tbl) : r.roblox_user = user
    THEN {Some(r.team_name) : r \in {x \in Rows(tbl) : x.roblox_user = user}}
    ELSE {Null}

rankplayer_old(p) ==
    /\ pc[p] = "rankplayer_old"
    /\ \E old_team \in OldTeams(players, cmd[p].user) :
         loc' = [loc EXCEPT ![p].old_team = old_team]
    /\ Continue(p, "rankplayer_upsert")
    /\ UNCHANGED <<teams, players, clock, cmd>>

\* slip: the insert is done without the key on roblox_user
UpsertPlayerNoKey(tbl, row) == tbl (+) SetToBag({row})

\* slip: updated_at is left out of the DO UPDATE SET list
UpsertPlayerKeepsStamp(tbl, row) ==
    LET old == {r \in Rows(tbl) : r.roblox_user = row.roblox_user}
    IN  Without(tbl, old)
          (+) SetToBag(IF old = {} THEN {row}
                       ELSE {[row EXCEPT !.updated_at = r.updated_at] : r \in old})

\* slip: the statement replaces the table instead of the row
UpsertPlayerTruncating(tbl, row) == SetToBag({row})

\* slip: ON CONFLICT (roblox_user) DO NOTHING
UpsertPlayerDoNothing(tbl, row) ==
    IF \E r \in Rows(tbl) : r.roblox_user = row.roblox_user
    THEN tbl
    ELSE tbl (+) SetToBag({row})

\* INSERT INTO players ... ON CONFLICT (roblox_user) DO UPDATE SET (all columns)
UpsertPlayer(tbl, row) ==
    Without(tbl, {r \in Rows(tbl) : r.roblox_user = row.roblox_user})
        (+) SetToBag({row})

\* slip: the players table is created without the REFERENCES clause
InsertRefusedNoForeignKey(teamtbl, team) == FALSE

\* players.team_name REFERENCES teams(name): the write is refused
InsertRefused(teamtbl, team) == ~TeamExists(teamtbl, team)

rankplayer_upsert(p) ==
    /\ pc[p] = "rankplayer_upsert"
    /\ IF InsertRefused(teams, cmd[p].team)
       THEN /\ Reply(p, cmd[p], loc[p], "ForeignKeyViolation", FALSE)
            /\ UNCHANGED players
       ELSE /\ players' = UpsertPlayer(players, PlayerRow(cmd[p].user, cmd[p].team,
                                                          cmd[p].rank, loc[p].now))
            /\ Continue(p, "rankplayer_logo")
            /\ UNCHANGED <<cmd, loc>>
    /\ UNCHANGED <<teams, clock>>

\* the report line chosen after the store block
Report(old_team, team) ==
    IF old_team # Null /\ old_team[1] # <<>> /\ Lower(old_team[1]) # Lower(team)
    THEN "moved"
    ELSE IF old_team # Null /\ old_team[1] # <<>> THEN "updated"
    ELSE "added"

\* SELECT logo_asset_id FROM teams WHERE name=$1, then the reply
rankplayer_logo(p) ==
    /\ pc[p] = "rankplayer_logo"
    /\ Reply(p, cmd[p], loc[p], Report(loc[p].old_team, cmd[p].team), TRUE)
    /\ UNCHANGED <<teams, players, clock>>

\* ------------------------------------------------------------------------
\* /unrank
\* ------------------------------------------------------------------------
unrank_call(p) ==
    /\ CanCall(p)
    /\ \E caller \in CallerIds, robloxuser \in UserInputs, t \in ClockReadings :
         LET c == [name |-> "unrank", user |-> robloxuser,
                   team |-> FREE_AGENT_TEAM, rank |-> "Free Agent",
                   args |-> Null, caller |-> caller]
         IN  IF ~Allowed(caller)
             THEN /\ Denied(p, c)
                  /\ clock' = clock
             ELSE /\ clock' = t
                  /\ cmd' = [cmd EXCEPT ![p] = c]
                  /\ loc' = [loc EXCEPT ![p] = [NoLoc EXCEPT !.now = utc_now_iso(t)]]
                  /\ Goto(p, "acquire")
    /\ OnCall
    /\ UNCHANGED <<teams, players, conns>>

unrank_upsert(p) ==
    /\ pc[p] = "unrank_upsert"
    /\ IF InsertRefused(teams, FREE_AGENT_TEAM)
       THEN /\ Reply(p, cmd[p], loc[p], "ForeignKeyViolation", FALSE)
            /\ UNCHANGED players
       ELSE /\ players' = UpsertPlayer(players, PlayerRow(cmd[p].user, FREE_AGENT_TEAM,
                                                          "Free Agent", loc[p].now))
            /\ Reply(p, cmd[p], loc[p], "Unranked", TRUE)
    /\ UNCHANGED <<teams, clock>>

\* ------------------------------------------------------------------------
\* /playerinfo and GET /player/{roblox_user}
\* ------------------------------------------------------------------------
playerinfo_call(p) ==
    /\ CanCall(p)
    /\ \E robloxuser \in UserInputs :
         cmd' = [cmd EXCEPT ![p] = [name |-> "playerinfo", user |-> robloxuser,
                                    team |-> Null, rank |-> "", args |-> Null,
                                    caller |-> NoCaller]]
    /\ loc' = loc
    /\ Goto(p, "acquire")
    /\ OnCall
    /\ UNCHANGED <<teams, players, clock, conns>>

\* ... WHERE LOWER(p.roblox_user) = LOWER($1)
PlayersMatching(tbl, robloxuser) ==
    {r \in Rows(tbl) : Lower(r.roblox_user) = Lower(robloxuser)}

\* fetchrow: the first row of a result that has no ORDER BY
playerinfo_query(p) ==
    /\ pc[p] = "playerinfo_query"
    /\ IF PlayersMatching(players, cmd[p].user) = {}
       THEN Reply(p, cmd[p], loc[p], "PlayerNotFound", FALSE)
       ELSE \E row \in PlayersMatching(players, cmd[p].user) :
              Reply(p, cmd[p],
                    [loc[p] EXCEPT !.row = Some([team |-> row.team_name,
                                                 rank |-> row.rank])],
                    "Found", FALSE)
    /\ UNCHANGED <<teams, players, clock>>

\* ------------------------------------------------------------------------
\* Process restart: running handlers are gone, setup_hook runs init_db and
\* start_web_server announces the port
\* ------------------------------------------------------------------------
init_db ==
    /\ teams' = InsertTeamDoNothing(teams, SentinelRow)
    /\ pc' = [p \in Procs |-> "idle"]
    /\ cmd' = [p \in Procs |-> NoCmd]
    /\ loc' = [p \in Procs |-> NoLoc]
    /\ reply' = [NoReply EXCEPT !.task = "setup_hook", !.out = "Listening"]
    /\ conns' = [p \in Procs |-> 0]
    /\ last' = NoLast
    /\ prev' = NoLast
    /\ UNCHANGED <<calls, players, clock, serial, slots>>

\* ------------------------------------------------------------------------
\* Autocomplete: fetch_team_names_like
\* ------------------------------------------------------------------------
\* the characters of the model in code point order
CharOrder == <<" ", "%">> \o UpperChars \o <<"\\", "_">> \o LowerChars

Code(c) == CHOOSE i \in DOMAIN CharOrder : CharOrder[i] = c

\* ORDER BY name, code point by code point
RECURSIVE StrLess(_, _)
StrLess(a, b) ==
    IF a = <<>> THEN b # <<>>
    ELSE IF b = <<>> THEN FALSE
    ELSE IF Head(a) = Head(b) THEN StrLess(Tail(a), Tail(b))
    ELSE Code(Head(a)) < Code(Head(b))

\* text LIKE pattern: % any run of characters, _ any one character,
\* backslash takes the next pattern character literally
RECURSIVE Like(_, _)
Like(text, pat) ==
    IF pat = <<>> THEN text = <<>>
    ELSE IF Head(pat) = "%"
         THEN Like(text, Tail(pat)) \/ (text # <<>> /\ Like(Tail(text), pat))
    ELSE IF Head(pat) = "_"
         THEN text # <<>> /\ Like(Tail(text), Tail(pat))
    ELSE IF Head(pat) = "\\" /\ Len(pat) >= 2
         THEN /\ text # <<>>
              /\ Head(text) = pat[2]
              /\ Like(Tail(text), Tail(Tail(pat)))
    ELSE /\ text # <<>>
         /\ Head(text) = Head(pat)
         /\ Like(Tail(text), Tail(pat))

RECURSIVE Ordered(_)
Ordered(S) ==
    IF S = {} THEN <<>>
    ELSE LET m == CHOOSE x \in S : \A y \in S \ {x} : StrLess(x, y)
         IN  <<m>> \o Ordered(S \ {m})

\* LIMIT 25
Limit == 25

\* f"%{current}%" with current = (current or "").strip().lower(), then the
\* SELECT of the include_free_agent branch
fetch_team_names_like(current, include_free_agent) ==
    LET pattern == <<"%">> \o Lower(Strip(current)) \o <<"%">>
        names == {t.name : t \in
                    {x \in Rows(teams) :
                       /\ include_free_agent \/ x.name # FREE_AGENT_TEAM
                       /\ Like(Lower(x.name), pattern)}}
        rows == Ordered(names)
    IN  SubSeq(rows, 1, IF Len(rows) < Limit THEN Len(rows) ELSE Limit)

\* what is typed into the team field
SearchInputs ==
    { <<>>, <<"r","e">>, <<"R","E">>, <<" ","r","e">>, <<"_">>, <<"%">>,
      <<"t">>, <<"e","_">>, <<"\\">>, <<"x">> }

\* teamname_autocomplete (with Free Agent), rankplayer_team_autocomplete and
\* deleteteam_autocomplete (without)
autocomplete(p) ==
    /\ Idle(p)
    /\ CanAcquire(conns)
    /\ \E current \in SearchInputs, include_free_agent \in BOOLEAN :
         reply' = [task |-> p,
                   cmd |-> [name |-> "autocomplete", user |-> Null,
                            team |-> current, rank |-> "",
                            args |-> Some(include_free_agent),
                            caller |-> NoCaller],
                   loc |-> [NoLoc EXCEPT !.row =
                              Some(fetch_team_names_like(current, include_free_agent))],
                   out |-> "Choices"]
    /\ UNCHANGED <<teams, players, clock, calls, pc, cmd, loc, conns, slots,
                   serial, last, prev>>

\* team tables to search: few teams, and more teams than the limit
CrowdSize == 26

Crowd(k) ==
    {<<"T", LowerChars[((i - 1) % 26) + 1], LowerChars[((i - 1) \div 26) + 1]>> :
       i \in 1 .. k}

SearchTeams ==
    { {}, {Red}, {Red, red}, Crowd(CrowdSize - 2) \cup {Red},
      Crowd(CrowdSize), Crowd(CrowdSize) \cup {Red, red} }

\* a table as setteam builds it: the sentinel and one row per name
TableOf(names) ==
    SetToBag({SentinelRow} \cup {TeamRow(n, "ann", Null, Null, NoneText) : n \in names})

SearchInit ==
    /\ slots = Pair
    /\ teams \in {TableOf(names) : names \in SearchTeams}
    /\ players = EmptyBag
    /\ clock = 0
    /\ calls = 0
    /\ pc = [p \in Procs |-> "idle"]
    /\ cmd = [p \in Procs |-> NoCmd]
    /\ loc = [p \in Procs |-> NoLoc]
    /\ reply = NoReply
    /\ conns = [p \in Procs |-> 0]
    /\ serial = FALSE
    /\ last = NoLast
    /\ prev = NoLast

SearchNext == \E p \in Procs : autocomplete(p)

\* ------------------------------------------------------------------------
\* Properties
\* ------------------------------------------------------------------------
\* a step of p's handler (not a restart that drops it)
Stepped(p) ==
    /\ pc[p] # "idle"
    /\ pc'[p] # pc[p]
    /\ pc'[p] = "idle" => reply'.task = p

\* C1: in every reachable state, under any interleaving of the commands,
\* every player row's team_name is the name of a team row that exists.
C1_PlayersReferenceTeams ==
    \A r \in Rows(players) : TeamExists(teams, r.team_name)

\* the referential check has acted: a write was refused while players exist
C1_Witness ==
    /\ reply.out = "ForeignKeyViolation"
    /\ players # EmptyBag

\* C2: in every reachable state there is exactly one team row named
\* "Free Agent", and it is the row init_db wrote (owner "System", no manager,
\* no logo, division "None"): no command changes it.
C2_OneSentinelRow ==
    Without(teams, {t \in Rows(teams) : t.name # FREE_AGENT_TEAM})
        = SetToBag({SentinelRow})

\* setteam or deleteteam has been tried on the exact sentinel name while
\* other teams exist
C2_Witness ==
    /\ reply.out = "ReservedName"
    /\ reply.cmd.name \in {"setteam", "deleteteam"}
    /\ reply.cmd.team = FREE_AGENT_TEAM
    /\ \E t \in Rows(teams) : t.name # FREE_AGENT_TEAM

EqualIgnoringCase(a, b) == Lower(a) = Lower(b)

\* C3: setteam and deleteteam called (by league staff) with a name equal to
\* "Free Agent" ignoring letter case reply ReservedName in the very step of the call, with
\* teams and players unchanged, and never get to a store statement.
C3_ReservedNameRejected ==
    /\ [][\A p \in Procs :
            (/\ reply'.task = p
             /\ reply'.cmd.name \in {"setteam", "deleteteam"}
             /\ Allowed(reply'.cmd.caller)
             /\ EqualIgnoringCase(reply'.cmd.team, FREE_AGENT_TEAM))
            => /\ reply'.out = "ReservedName"
               /\ pc[p] = "idle"
               /\ teams' = teams
               /\ players' = players]_vars
    /\ [](\A p \in Procs :
            cmd[p].name \in {"setteam", "deleteteam"}
            => ~EqualIgnoringCase(cmd[p].team, FREE_AGENT_TEAM))

\* "free AGENT" has been rejected
C3_Witness ==
    /\ reply.out = "ReservedName"
    /\ reply.cmd.team = freeAGENT

\* C4: a rankplayer whose target team does not exist when it queries or
\* writes the store changes neither relation and replies UnknownTeam, also
\* when a deleteteam removed the team between the existence check and the
\* upsert.
C4_UnknownTeamAlways ==
    [][\A p \in Procs :
         (/\ Stepped(p)
          /\ pc[p] \in {"rankplayer_exists", "rankplayer_upsert"}
          /\ ~TeamExists(teams, cmd[p].team))
         => /\ reply'.task = p
            /\ reply'.out = "UnknownTeam"
            /\ teams' = teams
            /\ players' = players]_vars

\* what deleteteam's DELETE statement meets for team T
Referenced(T) == \E r \in Rows(players) : r.team_name = T

Repeats(p) ==
    /\ cmd[p].name = "rankplayer"
    /\ prev.name = "rankplayer"
    /\ prev.user = cmd[p].user
    /\ prev.team = cmd[p].team
    /\ prev.rank = cmd[p].rank

\* the second of two successive rankplayer(h, T, R): no step touches teams,
\* only the upsert touches players, and what it does is replace the one row
\* (h, T, R, at) by (h, T, R, now), where Later(now, at) relates the stamps;
\* the reply is "updated"
SecondAssign(Later(_, _)) ==
    \A p \in Procs :
      (Stepped(p) /\ Repeats(p))
      => /\ teams' = teams
         /\ pc[p] # "rankplayer_upsert" => players' = players
         /\ pc[p] = "rankplayer_upsert"
            => \E r \in Rows(players) :
                 /\ r.roblox_user = cmd[p].user
                 /\ r.team_name = cmd[p].team
                 /\ r.rank = cmd[p].rank
                 /\ players[r] = 1
                 /\ \A x \in Rows(players) : x.roblox_user = r.roblox_user => x = r
                 /\ Later(loc[p].now, r.updated_at)
                 /\ players' = Without(players, {r})
                      (+) SetToBag({[r EXCEPT !.updated_at = loc[p].now]})
         /\ pc'[p] = "idle" => reply'.out = "updated"

Advances(now, at) == now > at

NotEarlier(now, at) == now >= at

\* C6 as claimed: rankplayer(h, T, R) issued twice in succession leaves the
\* store as after the first call, except that the row's updated_at advances.
C6_IdempotentAsClaimed == [][SecondAssign(Advances)]_vars

\* C6 amended: rankplayer(h, T, R) issued twice in succession leaves the
\* store as after the first call (one row for h with team T and rank R, all
\* other rows unchanged), except that updated_at becomes the second call's
\* timestamp; timestamps are cut to whole seconds, so it is the same value
\* when both calls read the clock within one second and a later one
\* otherwise.
C6_Idempotent == [][SecondAssign(NotEarlier)]_vars

\* the second call has written, in a later second than the first
C6_Witness ==
    \E p \in Procs :
      /\ pc[p] = "rankplayer_logo"
      /\ Repeats(p)
      /\ \E r \in Rows(players) :
           r.roblox_user = cmd[p].user /\ r.updated_at > 0

\* C7: in a serial run, a playerinfo(h) issued right after a successful
\* rankplayer(h, T, R) finds a player with team T and rank R, and right after
\* an unrank(h) one with team "Free Agent".
C7_ReadAfterWrite ==
    [][\A p \in Procs :
         (/\ Stepped(p)
          /\ pc[p] = "playerinfo_query"
          /\ prev.name \in {"rankplayer", "unrank"}
          /\ prev.user = cmd[p].user)
         => /\ reply'.out = "Found"
            /\ reply'.loc.row # Null
            /\ reply'.loc.row[1].team = prev.team
            /\ prev.name = "rankplayer" => reply'.loc.row[1].rank = prev.rank]_vars

\* C8: in a serial run the report of a successful rankplayer is "moved"
\* exactly when the player had a row on a team other than the target,
\* "updated" exactly when the row was on the target team, "added" exactly
\* when there was no row; one of the three is always produced.
C8_MoveReport ==
    (reply.cmd.name = "rankplayer"
     /\ reply.out \notin {"Unauthorized", "UseUnrank", "UnknownTeam",
                          "ForeignKeyViolation"})
    => LET old == reply.loc.old_team
           T == reply.cmd.team
       IN  /\ reply.out \in {"moved", "updated", "added"}
           /\ reply.out = "moved" <=> (old # Null /\ old[1] # T)
           /\ reply.out = "updated" <=> (old # Null /\ old[1] = T)
           /\ reply.out = "added" <=> old = Null

\* C10: init_db run again (a restart) changes no team row and no player row,
\* and leaves exactly one "Free Agent" row.
C10_BootstrapIdempotent ==
    [][reply'.task = "setup_hook"
       => /\ teams' = teams
          /\ players' = players
          /\ BagCardinality(Without(teams', {t \in Rows(teams') :
                                               t.name # FREE_AGENT_TEAM})) = 1]_vars

\* init_db has run again on a database that holds teams and players
C10_Witness ==
    /\ reply.task = "setup_hook"
    /\ players # EmptyBag
    /\ \E t \in Rows(teams) : t.name # FREE_AGENT_TEAM

RECURSIVE Contains(_, _)
Contains(text, part) ==
    \/ (Len(part) <= Len(text) /\ SubSeq(text, 1, Len(part)) = part)
    \/ (text # <<>> /\ Contains(Tail(text), part))

\* C9: for every input s, fetch_team_names_like(s, include) returns only
\* names of existing teams that contain s ignoring case, at most 25 of them,
\* in ascending order, and never "Free Agent" when include is false.
C9_SearchResult ==
    reply.cmd.name = "autocomplete"
    => LET s == reply.cmd.team
           include == reply.cmd.args[1]
           res == reply.loc.row[1]
       IN  /\ \A i \in DOMAIN res :
                /\ TeamExists(teams, res[i])
                /\ Contains(Lower(res[i]), Lower(s))
           /\ Len(res) <= 25
           /\ \A i \in DOMAIN res : i > 1 => StrLess(res[i - 1], res[i])
           /\ ~include => \A i \in DOMAIN res : res[i] # FREE_AGENT_TEAM

\* the sentinel name, ignoring case and surrounding whitespace
IsSentinelName(team) == EqualIgnoringCase(Strip(team), FREE_AGENT_TEAM)

\* the player rows of tbl that are on the sentinel team
OnSentinel(tbl) == {r \in Rows(tbl) : r.team_name = FREE_AGENT_TEAM}

\* C11: rankplayer called (by league staff) with a team equal to "Free Agent" ignoring case
\* and surrounding whitespace replies (UseUnrank) in the very step of the
\* call, with players and teams unchanged, and never gets to a store
\* statement; a step that puts a player row on team "Free Agent" is the
\* upsert of an unrank.
C11_SentinelOnlyByUnrank ==
    /\ [][\A p \in Procs :
            (/\ reply'.task = p
             /\ reply'.cmd.name = "rankplayer"
             /\ Allowed(reply'.cmd.caller)
             /\ IsSentinelName(reply'.cmd.team))
            => /\ reply'.out = "UseUnrank"
               /\ pc[p] = "idle"
               /\ teams' = teams
               /\ players' = players]_vars
    /\ [](\A p \in Procs :
            cmd[p].name = "rankplayer" => ~IsSentinelName(cmd[p].team))
    /\ [][OnSentinel(players') \subseteq OnSentinel(players)
          \/ \E p \in Procs :
               /\ pc[p] = "unrank_upsert"
               /\ Stepped(p)
               /\ OnSentinel(players') \ OnSentinel(players)
                    = {PlayerRow(cmd[p].user, FREE_AGENT_TEAM, "Free Agent",
                                 loc[p].now)}]_vars

\* rankplayer to " Free Agent " has been rejected for a player who has a row
\* on another team
C11_Witness ==
    /\ reply.out = "UseUnrank"
    /\ reply.cmd.team = PaddedFreeAgent
    /\ \E r \in Rows(players) :
         r.roblox_user = reply.cmd.user /\ r.team_name # FREE_AGENT_TEAM

PlayerKeys(tbl) == {r.roblox_user : r \in Rows(tbl)}

\* C12: no step removes a player key: every roblox_user that has a row
\* before a step of setteam, deleteteam, rankplayer, unrank or a restart has
\* a row after it.
C12_PlayerRowsStay ==
    [][PlayerKeys(players) \subseteq PlayerKeys(players')]_vars

\* a team has been deleted after a player had been unranked
C12_Witness ==
    /\ reply.cmd.name = "deleteteam"
    /\ reply.out = "Deleted"
    /\ \E r \in Rows(players) : r.rank = "Free Agent"

\* C13: the upsert of unrank(h) always succeeds, whether or not h has a row:
\* afterwards there is exactly one row for h, with team "Free Agent" and
\* rank "Free Agent" (stamped with the command's timestamp); every row of
\* another player and every team row is unchanged.
C13_UnrankAlwaysSucceeds ==
    [][\A p \in Procs :
         (Stepped(p) /\ pc[p] = "unrank_upsert")
         => LET h == cmd[p].user
                row == PlayerRow(h, FREE_AGENT_TEAM, "Free Agent", loc[p].now)
            IN  /\ reply'.task = p
                /\ reply'.out = "Unranked"
                /\ teams' = teams
                /\ {r \in Rows(players') : r.roblox_user = h} = {row}
                /\ players'[row] = 1
                /\ \A r \in Rows(players) \cup Rows(players') :
                     r.roblox_user # h
                     => CopiesIn(r, players') = CopiesIn(r, players)]_vars

\* a player has been unranked while another player is on a team
C13_Witness ==
    /\ reply.out = "Unranked"
    /\ \E r \in Rows(players) :
         r.roblox_user # reply.cmd.user /\ r.team_name # FREE_AGENT_TEAM

\* C14: in every reachable state no two distinct team rows have names that
\* are equal ignoring letter case, and no name has two rows.
C14_TeamNamesUniqueIgnoringCase ==
    /\ \A t \in Rows(teams) : teams[t] = 1
    /\ \A t, u \in Rows(teams) :
         EqualIgnoringCase(t.name, u.name) => t = u

\* a write to the players table by task p: the upsert of rankplayer that the
\* foreign key does not refuse, or the upsert of unrank
Writes(p) ==
    /\ Stepped(p)
    /\ \/ pc[p] = "rankplayer_upsert" /\ TeamExists(teams, cmd[p].team)
       \/ pc[p] = "unrank_upsert"

\* C15: the players table changes only in the upsert of a rankplayer or an
\* unrank, and right after the upsert of a command the one row of its player
\* key has that command's team, rank and timestamp, whatever another command
\* for the same key has written or is about to write; rows of other keys are
\* as before.  So the row always equals, field for field, what the upsert
\* that committed last wrote.
C15_LastWriteWins ==
    [][/\ players' # players => \E p \in Procs : Writes(p)
       /\ \A p \in Procs :
            Writes(p)
            => LET row == PlayerRow(cmd[p].user, cmd[p].team, cmd[p].rank,
                                    loc[p].now)
               IN  /\ {r \in Rows(players') : r.roblox_user = cmd[p].user} = {row}
                   /\ players'[row] = 1
                   /\ \A r \in Rows(players) \cup Rows(players') :
                        r.roblox_user # cmd[p].user
                        => CopiesIn(r, players') = CopiesIn(r, players)]_vars

\* an unrank has just committed for the key of a rankplayer that has
\* committed and is still running, the two carrying different timestamps
C15_Witness ==
    /\ reply.out = "Unranked"
    /\ \E p \in Procs :
         /\ pc[p] = "rankplayer_logo"
         /\ cmd[p].user = reply.cmd.user
         /\ loc[p].now # reply.loc.now

\* C19: no step lowers a player's updated_at: the row a rankplayer or unrank
\* writes carries an updated_at that is not less than the one it replaces.
C19_UpdatedAtNeverDecreases ==
    [][\A r \in Rows(players), w \in Rows(players') :
         r.roblox_user = w.roblox_user => w.updated_at >= r.updated_at]_vars

\* C20: at its upsert, the old_team that rankplayer read is the team of the
\* row the upsert replaces (none when there is no row).
C20_OldTeamIsReplacedTeam ==
    [][\A p \in Procs :
         (Stepped(p) /\ pc[p] = "rankplayer_upsert")
         => loc[p].old_team \in OldTeams(players, cmd[p].user)]_vars

\* the upsert of setteam: afterwards the one row of the team has the call's
\* owner, manager and logo (none when omitted) and the division
\* Division(argument); every other team row and the players are unchanged
Overwrites(Division(_)) ==
    \A p \in Procs :
      (Stepped(p) /\ pc[p] = "setteam_upsert")
      => LET a == cmd[p].args[1]
             row == TeamRow(cmd[p].team, a.owner, a.manager, a.logo,
                            Division(a.division))
         IN  /\ reply'.task = p
             /\ reply'.out = "TeamSaved"
             /\ {t \in Rows(teams') : t.name = cmd[p].team} = {row}
             /\ teams'[row] = 1
             /\ \A t \in Rows(teams) \cup Rows(teams') :
                  t.name # cmd[p].team
                  => CopiesIn(t, teams') = CopiesIn(t, teams)
             /\ players' = players

Blank(d) == d = Null \/ Strip(d[1]) = <<>>

DivisionAsGiven(d) == IF Blank(d) THEN NoneText ELSE d[1]

DivisionStripped(d) == IF Blank(d) THEN NoneText ELSE Strip(d[1])

\* C17 as claimed: setteam on a non-sentinel name leaves the team's row with
\* owner, manager, logo_asset_id and division equal to the arguments (no
\* manager or logo when omitted, "None" for an omitted or blank division),
\* every other team row and every player row unchanged.
C17_OverwriteAsClaimed == [][Overwrites(DivisionAsGiven)]_vars

\* C17 amended: as above, but the division stored is the argument with its
\* surrounding whitespace removed ("None" when omitted or blank).
C17_Overwrite == [][Overwrites(DivisionStripped)]_vars

\* a team has been saved with division " D1" while another team and a
\* player exist
C17_Witness ==
    /\ reply.out = "TeamSaved"
    /\ reply.cmd.args[1].division = Some(<<" ","D","1">>)
    /\ players # EmptyBag
    /\ \E t \in Rows(teams) :
         t.name \notin {FREE_AGENT_TEAM, reply.cmd.team}

Restricted == {"setteam", "deleteteam", "rankplayer", "unrank"}

\* C16: setteam, deleteteam, rankplayer or unrank invoked by a caller whose
\* id is not in ALLOWED_IDS is answered (Unauthorized) in the step of the
\* call with teams and players unchanged, and its body never runs: every
\* running restricted command has a caller in ALLOWED_IDS.
C16_OnlyAllowedCallers ==
    /\ [][\A p \in Procs :
            (/\ reply'.task = p
             /\ reply'.cmd.name \in Restricted
             /\ reply'.cmd.caller \notin ALLOWED_IDS)
            => /\ reply'.out = "Unauthorized"
               /\ pc[p] = "idle"
               /\ pc'[p] = "idle"
               /\ teams' = teams
               /\ players' = players]_vars
    /\ [](\A p \in Procs :
            cmd[p].name \in Restricted => cmd[p].caller \in ALLOWED_IDS)

\* a caller outside ALLOWED_IDS has tried deleteteam while a team without
\* players exists
C16_Witness ==
    /\ reply.out = "Unauthorized"
    /\ reply.cmd.name = "deleteteam"
    /\ \E t \in Rows(teams) :
         t.name # FREE_AGENT_TEAM /\ ~Referenced(t.name)

\* inside its store block: past pool.acquire() and not yet out
InBlock(p) == pc[p] \notin {"idle", "acquire"}

\* C18: a handler holds one connection exactly while it is inside its store
\* block and none otherwise (so it has given it back when it has finished,
\* returned early or raised); the connections in use are never more than
\* max_size = 5 and are none when no command is running; a handler waiting
\* for a connection gets one (or is gone) eventually.
C18_ScopedConnections ==
    /\ [](\A p \in Procs : conns[p] = (IF InBlock(p) THEN 1 ELSE 0))
    /\ [](InUse(conns) <= max_size)
    /\ []((\A p \in Procs : Idle(p)) => InUse(conns) = 0)
    /\ \A p \in Crowd6 : (pc[p] = "acquire") ~> (pc[p] # "acquire")

\* the pool is exhausted: five handlers hold a connection and a sixth waits
C18_Witness ==
    /\ InUse(conns) = max_size
    /\ \E p \in Procs : pc[p] = "acquire"

\* C21: in every reachable state at most one player row matches any handle
\* under the comparison of playerinfo and GET /player/{handle}
\* (LOWER(roblox_user) = LOWER(handle)): no two player rows have handles that
\* are equal ignoring letter case, and no handle has two rows.
C21_PlayerHandlesUniqueIgnoringCase ==
    /\ \A r \in Rows(players) : players[r] = 1
    /\ \A h \in UserInputs :
         \A r, x \in PlayersMatching(players, h) : r = x

Next ==
    \/ init_db
    \/ \E p \in Procs : acquire(p)
    \/ \E p \in Procs : setteam_call(p)
    \/ \E p \in Procs : setteam_upsert(p)
    \/ \E p \in Procs : deleteteam_call(p)
    \/ \E p \in Procs : deleteteam_count(p)
    \/ \E p \in Procs : deleteteam_delete(p)
    \/ \E p \in Procs : rankplayer_call(p)
    \/ \E p \in Procs : rankplayer_exists(p)
    \/ \E p \in Procs : rankplayer_old(p)
    \/ \E p \in Procs : rankplayer_upsert(p)
    \/ \E p \in Procs : rankplayer_logo(p)
    \/ \E p \in Procs : unrank_call(p)
    \/ \E p \in Procs : unrank_upsert(p)
    \/ \E p \in Procs : playerinfo_call(p)
    \/ \E p \in Procs : playerinfo_query(p)

Spec == Init /\ [][Next]_vars

SerialSpec == SerialInit /\ [][Next]_vars

\* the event loop runs every handler that can take a step
Handlers == Next /\ reply'.task # "setup_hook"

CrowdSpec == CrowdInit /\ [][Next]_vars /\ WF_vars(Handlers)

SearchSpec == SearchInit /\ [][SearchNext]_vars
====
